---- MODULE Spec2Model ----
(***************************************************************************)
(* Model of the two identity-token verifiers of the repository:            *)
(*   src/utils/appleTokenVerifier.js   (verifyAppleIdToken)                *)
(*   src/utils/googleTokenVerifier.js  (verifyGoogleIdToken)               *)
(* Each verifier is an async function with one await (the network call).   *)
(* A call is two steps: the part before the await (Start) and the part     *)
(* after it (Resume), which runs synchronously to the return or the throw. *)
(*                                                                         *)
(* JavaScript strings that the code slices, compares or logs are sequences *)
(* of one-character strings; fixed message literals are TLA+ strings.      *)
(***************************************************************************)
EXTENDS Integers, Sequences, FiniteSets, TLC

VARIABLES env, pc, provider, input, netCalls, resp, log, result, thrown, trace

vars == <<env, pc, provider, input, netCalls, resp, log, result, thrown, trace>>

(***************************************************************************)
(* Bounds                                                                  *)
(***************************************************************************)
MaxKeys == 2

(***************************************************************************)
(* JavaScript values: undefined, a string, or a boolean.                   *)
(***************************************************************************)
Undef == [t |-> "undef", s |-> <<>>, b |-> FALSE]

Str(x) == [t |-> "str", s |-> x, b |-> FALSE]

Bool(x) == [t |-> "bool", s |-> <<>>, b |-> x]

\* JavaScript truthiness: undefined, '' and false are falsy.
Truthy(v) == CASE v.t = "undef" -> FALSE
               [] v.t = "str" -> v.s # <<>>
               [] OTHER -> v.b

\* a || d
OrElse(a, d) == IF Truthy(a) THEN a ELSE d

\* a === b on the values above (no coercion)
StrictEq(a, b) == a = b

\* s.substring(0, n)
Substring0(s, n) == SubSeq(s, 1, IF Len(s) < n THEN Len(s) ELSE n)

(***************************************************************************)
(* String literals of the source that take part in comparisons or slices.  *)
(***************************************************************************)
DefaultAppleClientId ==
  <<"c","o","m",".","a","i","c","a","l","o","r","i","e",".","a","p","p">>

AppleIssuer ==
  <<"h","t","t","p","s",":","/","/","a","p","p","l","e","i","d",".",
    "a","p","p","l","e",".","c","o","m">>

Unknown == <<"u","n","k","n","o","w","n">>

Ellipsis == <<".",".",".">>

NotSet == <<"n","o","t"," ","s","e","t">>

PrefixLen == 6

(***************************************************************************)
(* Inputs of the model: identifiers, subjects, e-mails.                    *)
(***************************************************************************)
CustomAppleId == <<"c","o","m",".","x">>

OtherAud == <<"c","o","m",".","e","v","i","l">>

EvilIssuer == <<"h","t","t","p","s",":","/","/","e","v","i","l">>

WebId == <<"1","2","3","4","5","6","-","w","e","b">>

IosId == <<"1","2","3","4","5","6","-","i","o","s">>

StrangerId == <<"9","9","9","9","9","9","-","x">>

Sub1 == <<"u","1">>

Email1 == <<"a","@","b">>

Name1 == <<"A","n","n">>

STrue == <<"t","r","u","e">>

SFalse == <<"f","a","l","s","e">>

SOne == <<"1">>

\* process.env: each variable is undefined (unset) or a string.
AppleEnvValues == {Undef, Str(<<>>), Str(CustomAppleId)}

WebEnvValues == {Undef, Str(<<>>), Str(WebId)}

IosEnvValues == {Undef, Str(IosId)}

Envs == [APPLE_CLIENT_ID : AppleEnvValues,
         GOOGLE_CLIENT_ID : WebEnvValues,
         GOOGLE_IOS_CLIENT_ID : IosEnvValues]

(***************************************************************************)
(* Log lines: level, the fixed text of the template, the error message     *)
(* interpolated into it (detail) and the data strings interpolated (args). *)
(***************************************************************************)
Line(level, msg, detail, args) ==
  [level |-> level, msg |-> msg, detail |-> detail, args |-> args]

Info(msg, args) == Line("info", msg, "", args)

Err(msg, detail, args) == Line("error", msg, detail, args)

(***************************************************************************)
(* Error objects as the catch block inspects them: message, response       *)
(* (status, data) and request.                                             *)
(***************************************************************************)
LocalError(m) ==
  [message |-> m, hasResponse |-> FALSE, status |-> 0, data |-> <<>>,
   serializable |-> TRUE, hasRequest |-> FALSE]

\* axios rejects with error.response set when the status is outside 2xx
StatusError(status, data, serializable) ==
  [message |-> "Request failed with status code", hasResponse |-> TRUE,
   status |-> status, data |-> data, serializable |-> serializable,
   hasRequest |-> TRUE]

\* axios rejects with error.request set and no response (timeout, network)
NoResponseError(m) ==
  [message |-> m, hasResponse |-> FALSE, status |-> 0, data |-> <<>>,
   serializable |-> TRUE, hasRequest |-> TRUE]

NoError == LocalError("")

\* The outcomes of the one network call.
ErrBody == <<"e","r","r">>

NoData == [aud |-> Undef, sub |-> Undef, email |-> Undef,
           email_verified |-> Undef, name |-> Undef]

\* One shape for every outcome of the network call: kind is "ok" (2xx),
\* "status" (non-2xx), "timeout" or "network"; body/keys describe the Apple
\* key-set body, data the Google tokeninfo body.
Response(kind, status, serializable, body, keys, data) ==
  [kind |-> kind, status |-> status, serializable |-> serializable,
   body |-> body, keys |-> keys, data |-> data]

FailedResponses ==
  { Response("status", 500, TRUE, "none", <<>>, NoData),
    Response("status", 400, FALSE, "none", <<>>, NoData),
    Response("timeout", 0, TRUE, "none", <<>>, NoData),
    Response("network", 0, TRUE, "none", <<>>, NoData) }

AxiosError(r) ==
  CASE r.kind = "status" -> StatusError(r.status, ErrBody, r.serializable)
    [] r.kind = "timeout" -> NoResponseError("timeout exceeded")
    [] OTHER -> NoResponseError("Network Error")


(***************************************************************************)
(* Apple: the compact token.  A string input is a sequence of atoms, "."   *)
(* being the delimiter and every other atom the content of a segment.      *)
(***************************************************************************)
Kid1 == <<"k","1">>

Kid2 == <<"k","2">>

RECURSIVE FirstDot(_, _)
FirstDot(s, i) ==
  IF i > Len(s) THEN 0 ELSE IF s[i] = "." THEN i ELSE FirstDot(s, i + 1)

\* variant of Split: identityToken.split('.', 3), at most three segments
SplitAtMostThree(s) ==
  LET d1 == FirstDot(s, 1)
      d2 == IF d1 = 0 THEN 0 ELSE FirstDot(s, d1 + 1)
      d3 == IF d2 = 0 THEN 0 ELSE FirstDot(s, d2 + 1)
  IN IF d1 = 0 THEN <<s>>
     ELSE IF d2 = 0 THEN <<SubSeq(s, 1, d1 - 1), SubSeq(s, d1 + 1, Len(s))>>
     ELSE <<SubSeq(s, 1, d1 - 1), SubSeq(s, d1 + 1, d2 - 1),
            SubSeq(s, d2 + 1, IF d3 = 0 THEN Len(s) ELSE d3 - 1)>>

\* identityToken.split('.')
RECURSIVE Split(_)
Split(s) ==
  LET d == FirstDot(s, 1)
  IN IF d = 0 THEN <<s>>
     ELSE <<SubSeq(s, 1, d - 1)>> \o Split(SubSeq(s, d + 1, Len(s)))

\* Header segments and what base64 decoding followed by JSON.parse gives:
\* parsed = FALSE when JSON.parse throws; otherwise the JSON value is null,
\* a primitive or an object with the fields kid and alg.
HeaderValue(parsed, json, kid, alg) ==
  [parsed |-> parsed, json |-> json, kid |-> kid, alg |-> alg]

DecodeHeader(seg) ==
  CASE seg = <<"hK1">> -> HeaderValue(TRUE, "object", Str(Kid1), "RS256")
    [] seg = <<"hK2">> -> HeaderValue(TRUE, "object", Str(Kid2), "RS256")
    [] seg = <<"hNoKid">> -> HeaderValue(TRUE, "object", Undef, "RS256")
    [] seg = <<"hHS">> -> HeaderValue(TRUE, "object", Str(Kid1), "HS256")
    [] seg = <<"hNull">> -> HeaderValue(TRUE, "null", Undef, "")
    [] seg = <<"hNum">> -> HeaderValue(TRUE, "primitive", Undef, "")
    [] OTHER -> HeaderValue(FALSE, "none", Undef, "")

HeaderAtoms == {"hK1", "hK2", "hNoKid", "hHS", "hNull", "hNum", "hBad"}

\* Payload segments and the claims they decode to.
PayloadValue(parsed, aud, iss, expired, sub, email, ev) ==
  [parsed |-> parsed, aud |-> aud, iss |-> iss, expired |-> expired,
   sub |-> sub, email |-> email, email_verified |-> ev]

GoodPayload(sub, ev) ==
  PayloadValue(TRUE, Str(DefaultAppleClientId), Str(AppleIssuer), FALSE,
               sub, Str(Email1), ev)

DecodePayload(seg) ==
  CASE seg = <<"pTrue">> -> GoodPayload(Str(Sub1), Bool(TRUE))
    [] seg = <<"pFalse">> -> GoodPayload(Str(Sub1), Bool(FALSE))
    [] seg = <<"pStrTrue">> -> GoodPayload(Str(Sub1), Str(STrue))
    [] seg = <<"pNoEv">> -> GoodPayload(Str(Sub1), Undef)
    [] seg = <<"pNoSub">> -> GoodPayload(Undef, Bool(TRUE))
    [] seg = <<"pBare">> ->
         PayloadValue(TRUE, Str(DefaultAppleClientId), Str(AppleIssuer),
                      FALSE, Undef, Undef, Undef)
    [] seg = <<"pCustom">> ->
         PayloadValue(TRUE, Str(CustomAppleId), Str(AppleIssuer), FALSE,
                      Str(Sub1), Str(Email1), Bool(TRUE))
    [] seg = <<"pOtherAud">> ->
         PayloadValue(TRUE, Str(OtherAud), Str(AppleIssuer), FALSE,
                      Str(Sub1), Str(Email1), Bool(TRUE))
    [] seg = <<"pEvilIss">> ->
         PayloadValue(TRUE, Str(DefaultAppleClientId), Str(EvilIssuer),
                      FALSE, Str(Sub1), Str(Email1), Bool(TRUE))
    [] seg = <<"pExpired">> ->
         PayloadValue(TRUE, Str(DefaultAppleClientId), Str(AppleIssuer),
                      TRUE, Str(Sub1), Str(Email1), Bool(TRUE))
    [] OTHER -> PayloadValue(FALSE, Undef, Undef, FALSE, Undef, Undef, Undef)

PayloadAtoms == {"pTrue", "pFalse", "pStrTrue", "pNoEv", "pNoSub", "pBare",
                 "pCustom", "pOtherAud", "pEvilIss", "pExpired", "pBad"}

\* Signature segments: the key material whose private half signed the
\* token's header and payload ("none" when the segment is no signature).
SignedBy(seg) ==
  CASE seg = <<"sM1">> -> "m1"
    [] seg = <<"sM3">> -> "m3"
    [] seg = <<"sMx">> -> "mx"
    [] OTHER -> "none"

SigAtoms == {"sM1", "sM3", "sMx"}

Compact(h, p, s) == <<h, ".", p, ".", s>>

StringInput(chars) == [isString |-> TRUE, chars |-> chars]

NonStringInput == [isString |-> FALSE, chars |-> <<>>]

WellFormedTokens ==
  {Compact(h, "pTrue", s) : h \in HeaderAtoms, s \in SigAtoms}
    \cup {Compact(h, p, "sM1") : h \in {"hK1", "hNoKid"}, p \in PayloadAtoms}

MalformedTokens ==
  { <<>>, <<"hK1">>, <<"hK1", ".", "pTrue">>, <<"hK1", ".">>,
    <<"hK1", ".", "pTrue", ".", "sM1", ".", "sM1">>, <<".", ".", ".">> }

\* three segments, the first of which is empty
EmptySegmentTokens == { <<".", ".">>, <<".", "pTrue", ".", "sM1">> }

AppleInputs ==
  {StringInput(c) :
      c \in WellFormedTokens \cup MalformedTokens \cup EmptySegmentTokens}
    \cup {NonStringInput}

(***************************************************************************)
(* Apple: the key set.                                                     *)
(***************************************************************************)
Jwk(kid, mat, convertible) ==
  [kid |-> kid, mat |-> mat, convertible |-> convertible]

NoKey == Jwk(Undef, "none", FALSE)

KeyPool == { Jwk(Str(Kid1), "m1", TRUE), Jwk(Str(Kid2), "m3", TRUE),
             Jwk(Undef, "m1", TRUE), Jwk(Str(Kid2), "m1", FALSE) }

KeySets == UNION {[1..n -> KeyPool] : n \in 0..MaxKeys}

\* 2xx bodies of the key-set endpoint: null, a text, an object without
\* keys, an object whose keys is not an array, an object with a keys array.
AppleResponses ==
  {Response("ok", 200, TRUE, b, <<>>, NoData) :
      b \in {"null", "text", "noKeys", "keysObject"}}
    \cup {Response("ok", 200, TRUE, "keys", k, NoData) : k \in KeySets}
    \cup FailedResponses


(***************************************************************************)
(* Apple: the libraries the verifier calls.                                *)
(***************************************************************************)
\* variant of Find: falls back to the first key when no kid matches
FindOrFirst(keys, kid, i) ==
  IF \E j \in i..Len(keys) : StrictEq(keys[j].kid, kid)
  THEN keys[CHOOSE j \in i..Len(keys) :
              /\ StrictEq(keys[j].kid, kid)
              /\ \A k \in i..(j - 1) : ~StrictEq(keys[k].kid, kid)]
  ELSE IF Len(keys) > 0 THEN keys[1] ELSE NoKey

\* keys.find(key => key.kid === header.kid): the first match, or NoKey
RECURSIVE Find(_, _, _)
Find(keys, kid, i) ==
  IF i > Len(keys) THEN NoKey
  ELSE IF StrictEq(keys[i].kid, kid) THEN keys[i]
  ELSE Find(keys, kid, i + 1)

\* jwkToPem(matchingKey): the PEM carries the key's material
jwkToPem(key) == key.mat

VerifyResult(ok, message, payload) ==
  [ok |-> ok, message |-> message, payload |-> payload]

\* jwt.verify(identityToken, pem, {algorithms, audience, issuer}) of
\* jsonwebtoken: decode, algorithm, signature, expiry, audience, issuer.
JwtVerify(tokenParts, pem, audience, issuer) ==
  LET h == DecodeHeader(tokenParts[1])
      payload == DecodePayload(tokenParts[2])
      signer == SignedBy(tokenParts[3])
  IN CASE ~h.parsed \/ h.json # "object" \/ ~payload.parsed ->
            VerifyResult(FALSE, "invalid token", payload)
       [] signer = "none" ->
            VerifyResult(FALSE, "jwt signature is required", payload)
       [] h.alg # "RS256" ->
            VerifyResult(FALSE, "invalid algorithm", payload)
       [] signer # pem ->
            VerifyResult(FALSE, "invalid signature", payload)
       [] payload.expired ->
            VerifyResult(FALSE, "jwt expired", payload)
       [] ~StrictEq(payload.aud, audience) ->
            VerifyResult(FALSE, "jwt audience invalid", payload)
       [] ~StrictEq(payload.iss, Str(issuer)) ->
            VerifyResult(FALSE, "jwt issuer invalid", payload)
       [] OTHER -> VerifyResult(TRUE, "", payload)

(***************************************************************************)
(* The result of a call and what the call went through.                    *)
(***************************************************************************)
Claims(sub, email, ev, name) ==
  [sub |-> sub, email |-> email, email_verified |-> ev, name |-> name]

NoClaims == Claims(<<>>, <<>>, FALSE, <<>>)

\* what the try block did: segments counted, header decoded, key matched,
\* jwkToPem called, jwt.verify called
Trace(parts, header, matchingKey, pem, verify) ==
  [parts |-> parts, header |-> header, matchingKey |-> matchingKey,
   pem |-> pem, verify |-> verify]

NoHeader == HeaderValue(FALSE, "none", Undef, "")

NoTrace == Trace(0, NoHeader, NoKey, FALSE, FALSE)

\* the try block ends by a return (ok) or by a throw (err)
Outcome(ok, claims, err, logs, tr) ==
  [ok |-> ok, claims |-> claims, err |-> err, logs |-> logs, tr |-> tr]

Throw(err, logs, tr) == Outcome(FALSE, NoClaims, err, logs, tr)

(***************************************************************************)
(* verifyAppleIdToken: the try block after the await.                      *)
(***************************************************************************)
\* variant of AppleEmailVerified: the comparison of the Google verifier
AppleEmailVerifiedString(payload) ==
  StrictEq(payload.email_verified, Str(STrue))

\* payload.email_verified === true
AppleEmailVerified(payload) == StrictEq(payload.email_verified, Bool(TRUE))

\* variant of AppleClaims: the subject falls back to 'unknown', as in the
\* success log line
AppleClaimsUnknownSub(payload) ==
  Claims(OrElse(payload.sub, Str(Unknown)).s,
         OrElse(payload.email, Str(<<>>)).s,
         AppleEmailVerified(payload),
         <<>>)

AppleClaims(payload) ==
  Claims(OrElse(payload.sub, Str(<<>>)).s,
         OrElse(payload.email, Str(<<>>)).s,
         AppleEmailVerified(payload),
         <<>>)

\* process.env.APPLE_CLIENT_ID || 'com.aicalorie.app'
AppleClientId(e) == OrElse(e.APPLE_CLIENT_ID, Str(DefaultAppleClientId))

\* lines 52-75: the matching key is converted and the token verified
AppleVerifyWith(tokenParts, header, matchingKey, e) ==
  IF ~matchingKey.convertible
  THEN Throw(LocalError("jwkToPem: unsupported key"), <<>>,
             Trace(3, header, matchingKey, TRUE, FALSE))
  ELSE LET pem == jwkToPem(matchingKey)
           v == JwtVerify(tokenParts, pem, AppleClientId(e), AppleIssuer)
           tr == Trace(3, header, matchingKey, TRUE, TRUE)
       IN IF ~v.ok THEN Throw(LocalError(v.message), <<>>, tr)
          ELSE Outcome(TRUE, AppleClaims(v.payload), NoError,
                 <<Info("Successfully verified Apple token for subject: ",
                        <<OrElse(v.payload.sub, Str(Unknown)).s>>)>>,
                 tr)

\* lines 45-50: the key whose kid equals the header's kid
AppleMatchKey(tokenParts, header, r, e) ==
  CASE r.body = "keysObject" ->
         Throw(LocalError("TypeError: keys.find is not a function"), <<>>,
               Trace(3, header, NoKey, FALSE, FALSE))
    [] header.json = "null" ->
         Throw(LocalError("TypeError: cannot read properties of null"), <<>>,
               Trace(3, header, NoKey, FALSE, FALSE))
    [] OTHER ->
         LET matchingKey == Find(r.keys, header.kid, 1)
         IN IF matchingKey = NoKey
            THEN Throw(LocalError("No matching Apple public key found"),
                       <<Err("No matching Apple public key found for kid: ",
                             "", <<header.kid.s>>)>>,
                       Trace(3, header, NoKey, FALSE, FALSE))
            ELSE AppleVerifyWith(tokenParts, header, matchingKey, e)

\* lines 26-43: the token is split and its header decoded
AppleDecode(in, r, e) ==
  IF ~in.isString
  THEN Throw(LocalError("TypeError: identityToken.split is not a function"),
             <<>>, NoTrace)
  ELSE LET tokenParts == Split(in.chars)
       IN IF Len(tokenParts) # 3
          THEN Throw(LocalError("Invalid token format"),
                     <<Err("Invalid Apple ID token format", "", <<>>)>>,
                     Trace(Len(tokenParts), NoHeader, NoKey, FALSE, FALSE))
          ELSE LET header == DecodeHeader(tokenParts[1])
               IN IF ~header.parsed
                  THEN Throw(LocalError("Invalid token header"),
                         <<Err("Failed to decode token header: ",
                               "Unexpected token in JSON", <<>>)>>,
                         Trace(3, header, NoKey, FALSE, FALSE))
                  ELSE AppleMatchKey(tokenParts, header, r, e)

\* variant of NoKeysAvailable: !keys only, an empty array passes
OnlyMissingKeys(r) == r.body \in {"text", "noKeys"}

\* !keys || keys.length === 0
NoKeysAvailable(r) ==
  r.body \in {"text", "noKeys"} \/ (r.body = "keys" /\ Len(r.keys) = 0)

\* lines 17-75: everything of the try block that follows the await
AppleTry(in, r, e) ==
  CASE r.kind # "ok" -> Throw(AxiosError(r), <<>>, NoTrace)
    [] r.body = "null" ->
         Throw(LocalError("TypeError: cannot read properties of null"), <<>>,
               NoTrace)
    [] NoKeysAvailable(r) ->
         Throw(LocalError("No Apple public keys available"),
               <<Err("No Apple public keys available", "", <<>>)>>, NoTrace)
    [] OTHER -> AppleDecode(in, r, e)

(***************************************************************************)
(* The catch block (the same in both verifiers but for the provider name). *)
(***************************************************************************)
ResponseDetails(err) ==
  IF err.serializable
  THEN <<Err("Response status: ", "", <<>>),
         Err("Response data: ", "", <<err.data>>)>>
  ELSE <<Err("Response status: ", "", <<>>),
         Err("Error logging response details", "", <<>>)>>

\* variant of CatchLogs: `if (error.request)` in place of `else if`
CatchLogsNoElse(name, err) ==
  <<Err(name \o " token verification error: ",
        IF err.message = "" THEN "Unknown error" ELSE err.message, <<>>)>>
  \o (IF err.hasResponse THEN ResponseDetails(err) ELSE <<>>)
  \o (IF err.hasRequest
      THEN <<Err("No response received from " \o name, "", <<>>)>>
      ELSE <<>>)

CatchLogs(name, err) ==
  <<Err(name \o " token verification error: ",
        IF err.message = "" THEN "Unknown error" ELSE err.message, <<>>)>>
  \o (IF err.hasResponse THEN ResponseDetails(err)
      ELSE IF err.hasRequest
           THEN <<Err("No response received from " \o name, "", <<>>)>>
           ELSE <<>>)

\* variant of Rethrown: the response details are logged outside a try
\* block, so that a failure of JSON.stringify leaves the catch block
RethrownUnguarded(name, err) ==
  IF err.hasResponse /\ ~err.serializable
  THEN "TypeError: Converting circular structure to JSON"
  ELSE "Failed to verify " \o name \o " token"

\* throw new Error('Failed to verify <provider> token')
Rethrown(name, err) == "Failed to verify " \o name \o " token"

Returned(claims) == [kind |-> "claims", message |-> "", claims |-> claims]

Failed(message) == [kind |-> "error", message |-> message, claims |-> NoClaims]

Pending == [kind |-> "none", message |-> "", claims |-> NoClaims]

\* the call settles: the promise resolves with the claims or rejects
Settle(name, o) ==
  /\ pc' = "done"
  /\ trace' = o.tr
  /\ IF o.ok
     THEN /\ log' = log \o o.logs
          /\ result' = Returned(o.claims)
          /\ thrown' = NoError
     ELSE /\ log' = log \o o.logs \o CatchLogs(name, o.err)
          /\ result' = Failed(Rethrown(name, o.err))
          /\ thrown' = o.err

(***************************************************************************)
(* verifyAppleIdToken                                                      *)
(***************************************************************************)
AppleStart(in) ==
  /\ pc = "idle"
  /\ pc' = "awaitApple"
  /\ provider' = "Apple"
  /\ input' = in
  /\ log' = <<Info("Attempting to verify Apple ID token", <<>>)>>
  /\ netCalls' = 1
  /\ resp' = Response("none", 0, TRUE, "none", <<>>, NoData)
  /\ result' = Pending
  /\ thrown' = NoError
  /\ trace' = NoTrace
  /\ UNCHANGED env

AppleResume(r) ==
  /\ pc = "awaitApple"
  /\ resp' = r
  /\ Settle("Apple", AppleTry(input, r, env))
  /\ UNCHANGED <<env, provider, input, netCalls>>

(***************************************************************************)
(* verifyGoogleIdToken                                                     *)
(***************************************************************************)
SameSixId == <<"1","2","3","4","5","6","-","x">>

GoogleData(aud, sub, email, ev, name) ==
  [aud |-> aud, sub |-> sub, email |-> email, email_verified |-> ev,
   name |-> name]

GoogleBodies ==
  {GoogleData(aud, sub, email, ev, name) :
     aud \in {Undef, Str(<<>>), Str(WebId), Str(IosId), Str(StrangerId),
              Str(SameSixId)},
     sub \in {Undef, Str(Sub1)},
     email \in {Undef, Str(Email1)},
     ev \in {Undef, Str(STrue), Str(SFalse), Str(SOne), Bool(TRUE)},
     name \in {Undef, Str(Name1)}}

\* 2xx bodies of the tokeninfo endpoint (null, or an object), and failures
GoogleResponses ==
  {Response("ok", 200, TRUE, "object", <<>>, d) : d \in GoogleBodies}
    \cup {Response("ok", 200, TRUE, "null", <<>>, NoData)}
    \cup FailedResponses

GoogleInputs == {StringInput(<<"idToken">>), NonStringInput}

\* variant of GoogleEmailVerified: !!response.data.email_verified
GoogleEmailVerifiedTruthy(data) == Truthy(data.email_verified)

\* response.data.email_verified === 'true'
GoogleEmailVerified(data) == StrictEq(data.email_verified, Str(STrue))

GoogleClaims(data) ==
  Claims(OrElse(data.sub, Str(<<>>)).s,
         OrElse(data.email, Str(<<>>)).s,
         GoogleEmailVerified(data),
         OrElse(data.name, Str(<<>>)).s)

\* response.data.aud || ''
TokenAudience(data) == OrElse(data.aud, Str(<<>>))

\* process.env.GOOGLE_CLIENT_ID || ''
WebClientId(e) == OrElse(e.GOOGLE_CLIENT_ID, Str(<<>>))

\* process.env.GOOGLE_IOS_CLIENT_ID || ''
IosClientId(e) == OrElse(e.GOOGLE_IOS_CLIENT_ID, Str(<<>>))

\* id ? id.substring(0, 6) + '...' : 'not set'
IdPrefix(id) ==
  IF Truthy(id) THEN Substring0(id.s, PrefixLen) \o Ellipsis ELSE NotSet

\* tokenAudience !== webClientId && tokenAudience !== iosClientId
AudienceMismatch(tokenAudience, webClientId, iosClientId) ==
  ~StrictEq(tokenAudience, webClientId) /\ ~StrictEq(tokenAudience, iosClientId)

\* logger.info(`Token has audience: ${tokenAudience}`)
AudienceLine(tokenAudience) ==
  Info("Token has audience: ", <<tokenAudience.s>>)

MismatchLine(tokenAudience, webClientId, iosClientId) ==
  Err("Token audience mismatch: ", "",
      <<Substring0(tokenAudience.s, PrefixLen), IdPrefix(webClientId),
        IdPrefix(iosClientId)>>)

\* lines 20-45: everything of the try block that follows the await
GoogleTry(in, r, e) ==
  CASE r.kind # "ok" -> Throw(AxiosError(r), <<>>, NoTrace)
    [] r.body = "null" ->
         Throw(LocalError("TypeError: cannot read properties of null"), <<>>,
               NoTrace)
    [] OTHER ->
         LET tokenAudience == TokenAudience(r.data)
             webClientId == WebClientId(e)
             iosClientId == IosClientId(e)
         IN IF AudienceMismatch(tokenAudience, webClientId, iosClientId)
            THEN Throw(LocalError("Token audience mismatch"),
                       <<AudienceLine(tokenAudience),
                         MismatchLine(tokenAudience, webClientId,
                                      iosClientId)>>,
                       NoTrace)
            ELSE Outcome(TRUE, GoogleClaims(r.data), NoError,
                   <<AudienceLine(tokenAudience),
                     Info("Successfully verified Google token for email: ",
                          <<OrElse(r.data.email, Str(Unknown)).s>>)>>,
                   NoTrace)

GoogleStart(in) ==
  /\ pc = "idle"
  /\ pc' = "awaitGoogle"
  /\ provider' = "Google"
  /\ input' = in
  /\ log' = <<Info("Attempting to verify Google ID token", <<>>)>>
  /\ netCalls' = 1
  /\ resp' = Response("none", 0, TRUE, "none", <<>>, NoData)
  /\ result' = Pending
  /\ thrown' = NoError
  /\ trace' = NoTrace
  /\ UNCHANGED env

GoogleResume(r) ==
  /\ pc = "awaitGoogle"
  /\ resp' = r
  /\ Settle("Google", GoogleTry(input, r, env))
  /\ UNCHANGED <<env, provider, input, netCalls>>

(***************************************************************************)
(* The process: no state is kept from one call to the next.                *)
(***************************************************************************)
\* the caller has taken the result; the verifiers keep nothing of the call
NextCall ==
  /\ pc = "done"
  /\ pc' = "idle"
  /\ provider' = "none"
  /\ input' = NonStringInput
  /\ netCalls' = 0
  /\ resp' = Response("none", 0, TRUE, "none", <<>>, NoData)
  /\ log' = <<>>
  /\ result' = Pending
  /\ thrown' = NoError
  /\ trace' = NoTrace
  /\ UNCHANGED env

Init ==
  /\ env \in Envs
  /\ pc = "idle"
  /\ provider = "none"
  /\ input = NonStringInput
  /\ netCalls = 0
  /\ resp = Response("none", 0, TRUE, "none", <<>>, NoData)
  /\ log = <<>>
  /\ result = Pending
  /\ thrown = NoError
  /\ trace = NoTrace

Next ==
  \/ \E in \in AppleInputs : AppleStart(in)
  \/ \E r \in AppleResponses : AppleResume(r)
  \/ \E in \in GoogleInputs : GoogleStart(in)
  \/ \E r \in GoogleResponses : GoogleResume(r)
  \/ NextCall

Spec == Init /\ [][Next]_vars


(***************************************************************************)
(* Properties                                                              *)
(***************************************************************************)
AppleDone == pc = "done" /\ provider = "Apple"

GoogleDone == pc = "done" /\ provider = "Google"

HasLine(msg) == \E i \in 1..Len(log) : log[i].msg = msg

\* the segments of the input of the current call (none for a non-string)
InputParts == IF input.isString THEN Split(input.chars) ELSE <<>>

\* the number of dot-delimited segments of a string input, counted on the
\* input itself
SegmentCount ==
  Cardinality({i \in 1..Len(input.chars) : input.chars[i] = "."}) + 1

ThreeSegments == input.isString /\ SegmentCount = 3

\* the key material that signed the input, "none" when it has no signature
InputSigner == IF ThreeSegments THEN SignedBy(InputParts[3]) ELSE "none"

FetchedKeys == IF resp.kind = "ok" /\ resp.body = "keys" THEN resp.keys ELSE <<>>

FetchedMaterial == {FetchedKeys[i].mat : i \in 1..Len(FetchedKeys)}

\* the audience the Apple verifier accepts under the current configuration
ExpectedAppleAudience ==
  IF env.APPLE_CLIENT_ID.t = "str" /\ env.APPLE_CLIENT_ID.s # <<>>
  THEN env.APPLE_CLIENT_ID.s
  ELSE <<"c","o","m",".","a","i","c","a","l","o","r","i","e",".","a","p","p">>

\* C1: verifyAppleIdToken returns claims only if, in that call, the key set
\* was fetched (one network call, a 2xx answer with a keys array), the first
\* key whose kid equals the header's kid is the key used, the token is an
\* RS256 token signed by that key's material, and its audience is the
\* configured client id (or the default), its issuer Apple's and it has not
\* expired; a token signed by material that is not in the fetched set never
\* yields claims.
C1_ClaimsOnlyByMatchedKey ==
  /\ (AppleDone /\ result.kind = "claims") =>
       /\ netCalls = 1
       /\ resp.kind = "ok" /\ resp.body = "keys"
       /\ ThreeSegments
       /\ LET h == DecodeHeader(InputParts[1])
              p == DecodePayload(InputParts[2])
          IN /\ h.parsed /\ h.alg = "RS256"
             /\ \E i \in 1..Len(resp.keys) :
                  /\ resp.keys[i].kid = h.kid
                  /\ \A j \in 1..(i - 1) : resp.keys[j].kid # h.kid
                  /\ trace.matchingKey = resp.keys[i]
                  /\ InputSigner = resp.keys[i].mat
             /\ p.aud = Str(ExpectedAppleAudience)
             /\ p.iss = Str(AppleIssuer)
             /\ ~p.expired
       /\ trace.pem /\ trace.verify
  /\ (AppleDone /\ InputSigner \notin FetchedMaterial) => result.kind = "error"

\* C1 witness: claims returned from a fetched set of two keys, the second of
\* which is the matching one
C1_Witness ==
  /\ AppleDone /\ result.kind = "claims"
  /\ Len(resp.keys) = 2
  /\ trace.matchingKey = resp.keys[2]
  /\ resp.keys[1] # resp.keys[2]


\* the configured Google client identifiers that can match an audience: an
\* unset or empty variable matches none
ConfiguredGoogleIds ==
  {id \in {env.GOOGLE_CLIENT_ID, env.GOOGLE_IOS_CLIENT_ID} :
     id.t = "str" /\ id.s # <<>>}

GoogleAnswered == GoogleDone /\ resp.kind = "ok" /\ resp.body = "object"

\* C2: verifyGoogleIdToken fails with the audience mismatch for every
\* tokeninfo response whose aud equals no configured client identifier, an
\* unset or empty identifier matching no audience (so with both unset every
\* response fails, a response without aud included).
C2_UnmatchedAudienceFails ==
  (GoogleAnswered /\ resp.data.aud \notin ConfiguredGoogleIds) =>
     /\ result.kind = "error"
     /\ thrown.message = "Token audience mismatch"

NetworkFailed == pc = "done" /\ resp.kind \in {"status", "timeout", "network"}

GenericMessage ==
  IF provider = "Apple" THEN "Failed to verify Apple token"
  ELSE "Failed to verify Google token"

NoResponseLine ==
  IF provider = "Apple" THEN "No response received from Apple"
  ELSE "No response received from Google"

\* the failure carries or records the provider-unavailable classification:
\* the error handed to the caller differs from the one of an invalid token,
\* or the log holds the 'No response received from <provider>' line
ClassifiedUnavailable == result.message # GenericMessage \/ HasLine(NoResponseLine)

\* C3 (as stated): when the one network call times out, fails at the network
\* level or is answered with a non-success status, the call returns no
\* claims, makes no second network call and the failure is classified as
\* provider-unavailable.
C3_NetworkFailureClassified ==
  NetworkFailed =>
     /\ result.kind = "error"
     /\ netCalls = 1
     /\ ClassifiedUnavailable

\* C3 (amended): when the one network call times out, fails at the network
\* level or is answered with a non-success status, the call returns no
\* claims and makes no second network call; the caller gets the same generic
\* error as for an invalid token; the log records 'No response received from
\* <provider>' exactly for a timeout or network-level failure, and the
\* response status and body for a non-success status; neither is logged for
\* a failure of a local check.
C3_NetworkFailureFailsClosed ==
  /\ NetworkFailed =>
       /\ result.kind = "error"
       /\ result.message = GenericMessage
       /\ netCalls = 1
       /\ HasLine(NoResponseLine) <=> resp.kind \in {"timeout", "network"}
       /\ HasLine("Response status: ") <=> resp.kind = "status"
  /\ (pc = "done" /\ resp.kind = "ok") =>
       /\ netCalls = 1
       /\ ~HasLine(NoResponseLine)
       /\ ~HasLine("Response status: ")

\* C3 witness: a call whose network call timed out has failed
C3_Witness ==
  /\ NetworkFailed /\ resp.kind = "timeout"
  /\ result.kind = "error"
  /\ HasLine(NoResponseLine)

KeysUsable ==
  /\ resp.kind = "ok"
  /\ \/ resp.body = "keysObject"
     \/ resp.body = "keys" /\ Len(resp.keys) > 0

NotThreeSegments == AppleDone /\ input.isString /\ SegmentCount # 3

\* C4 (as stated): a string input that does not split into exactly three
\* segments fails with 'Invalid token format', whatever the configuration
\* and whatever the outcome of the key-set fetch.
C4_MalformedAlways ==
  NotThreeSegments => thrown.message = "Invalid token format"

\* C4 (amended): a string input that does not split into exactly three
\* segments always fails, with the generic error for the caller; the failure
\* inside is 'Invalid token format' exactly when the key-set fetch succeeded
\* with a non-empty keys value, for every configuration; otherwise it is the
\* earlier failure of the fetch or of the key-set check.  No key is matched
\* and nothing is verified.
C4_MalformedAfterFetch ==
  NotThreeSegments =>
     /\ result = Failed("Failed to verify Apple token")
     /\ (thrown.message = "Invalid token format") <=> KeysUsable
     /\ (resp.kind # "ok") => thrown.hasRequest
     /\ (resp.kind = "ok" /\ resp.body \in {"text", "noKeys"}) =>
          thrown.message = "No Apple public keys available"
     /\ ~trace.pem /\ ~trace.verify /\ trace.matchingKey = NoKey

\* C4 witness: a four-segment input rejected after a fetch of two keys
C4_Witness ==
  /\ NotThreeSegments /\ SegmentCount = 4
  /\ resp.kind = "ok" /\ Len(resp.keys) = 2
  /\ thrown.message = "Invalid token format"

\* no fetched key has the kid of the input's header
NoKidMatch ==
  /\ AppleDone /\ ThreeSegments
  /\ DecodeHeader(InputParts[1]).parsed
  /\ resp.kind = "ok" /\ resp.body \in {"keys", "noKeys"}
  /\ \A i \in 1..Len(FetchedKeys) :
       FetchedKeys[i].kid # DecodeHeader(InputParts[1]).kid

KeyNotFound ==
  /\ result.kind = "error"
  /\ thrown.message = "No matching Apple public key found"
  /\ ~trace.pem /\ ~trace.verify
  /\ netCalls = 1

\* C5 (as stated): a three-segment token with a decodable header whose kid
\* matches none of the N keys of the response fails with 'No matching Apple
\* public key found' for every N >= 0 (N = 0 and a missing keys array
\* included), without JWK conversion or signature verification and with one
\* network call.
C5_KeyNotFoundAnyN == NoKidMatch => KeyNotFound

\* C5 (amended): for every N >= 1 and a header that decodes to a JSON value
\* other than null, the call fails with 'No matching Apple public key found',
\* without JWK conversion or signature verification and with one network
\* call; for N = 0 or a missing keys array it fails with 'No Apple public
\* keys available' instead, again without conversion or verification and
\* with one network call.
C5_KeyNotFoundSomeKeys ==
  /\ (NoKidMatch /\ Len(FetchedKeys) >= 1
        /\ DecodeHeader(InputParts[1]).json # "null") => KeyNotFound
  /\ (NoKidMatch /\ Len(FetchedKeys) = 0) =>
       /\ result.kind = "error"
       /\ thrown.message = "No Apple public keys available"
       /\ ~trace.pem /\ ~trace.verify
       /\ netCalls = 1

\* C5 witness: no key of a set of two has the header's kid
C5_Witness ==
  /\ NoKidMatch /\ Len(FetchedKeys) = 2
  /\ DecodeHeader(InputParts[1]).kid = Str(Kid1)
  /\ KeyNotFound

\* C6: every failure inside a verifier reaches the caller as one error with
\* the provider's fixed message, whatever check failed, a failure while the
\* response details are logged included; a call ends with claims or with
\* that error and nothing else.
C6_OneGenericError ==
  pc = "done" =>
     /\ result.kind \in {"claims", "error"}
     /\ (result.kind = "error") <=> (thrown # NoError)
     /\ (result.kind = "error") => result = Failed(GenericMessage)
     /\ (result.kind = "claims") => result.message = ""

\* C6 witness: a failure whose response details could not be logged
C6_Witness ==
  /\ pc = "done" /\ thrown.hasResponse /\ ~thrown.serializable
  /\ HasLine("Error logging response details")
  /\ result = Failed(GenericMessage)

RECURSIVE Contains(_, _, _)
\* v occurs in s at position i or later
Contains(s, v, i) ==
  IF i + Len(v) - 1 > Len(s) THEN FALSE
  ELSE IF SubSeq(s, i, i + Len(v) - 1) = v THEN TRUE
  ELSE Contains(s, v, i + 1)

\* the identifiers whose full value must stay out of the log: the audience
\* of the response and the configured client identifiers, when longer than
\* the prefix that may be logged
GoogleSecrets ==
  {id.s : id \in {x \in {resp.data.aud, env.GOOGLE_CLIENT_ID,
                         env.GOOGLE_IOS_CLIENT_ID} :
                    x.t = "str" /\ Len(x.s) > PrefixLen}}

\* C7: no log line of a call of verifyGoogleIdToken contains the full value
\* of the token's audience or of a configured client identifier; at most the
\* first six characters of each are logged.
C7_NoFullIdentifierLogged ==
  GoogleDone =>
     \A i \in 1..Len(log) : \A a \in 1..Len(log[i].args) :
        \A v \in GoogleSecrets : ~Contains(log[i].args[a], v, 1)

\* the sub of the verified payload (Apple) or of the tokeninfo body (Google)
ProviderSub ==
  IF provider = "Apple" THEN DecodePayload(InputParts[2]).sub
  ELSE resp.data.sub

Succeeded == pc = "done" /\ result.kind = "claims"

\* C8 (as stated): on success the returned sub is a non-empty string, also
\* when the provider omitted sub; Apple's returned name is empty.
C8_SubjectNeverEmpty ==
  Succeeded =>
     /\ result.claims.sub # <<>>
     /\ (provider = "Apple") => result.claims.name = <<>>

\* C8 (amended): on success the returned sub is the provider's sub when that
\* is a non-empty string and the empty string when the provider omitted it;
\* Apple's returned name is empty.
C8_SubjectOrEmpty ==
  Succeeded =>
     /\ result.claims.sub =
          (IF ProviderSub.t = "str" THEN ProviderSub.s ELSE <<>>)
     /\ (provider = "Apple") => result.claims.name = <<>>

\* C8 witness: Apple claims returned for a payload without sub
C8_Witness ==
  /\ Succeeded /\ provider = "Apple"
  /\ ProviderSub.t = "undef"
  /\ result.claims.sub = <<>>

\* C9: on success of verifyGoogleIdToken the returned email_verified is true
\* exactly when the response's email_verified is the string "true"; "false",
\* "1", the boolean true and an absent field give false.
C9_GoogleEmailVerified ==
  (Succeeded /\ provider = "Google") =>
     LET ev == resp.data.email_verified
     IN /\ result.claims.email_verified
             = (ev.t = "str" /\ ev.s = <<"t","r","u","e">>)
        /\ (ev.t \in {"undef", "bool"}) => ~result.claims.email_verified
        /\ (ev.t = "str" /\ ev.s \in {<<"f","a","l","s","e">>, <<"1">>}) =>
             ~result.claims.email_verified

\* C9 witness: the boolean true was answered and false is returned
C9_Witness ==
  /\ Succeeded /\ provider = "Google"
  /\ resp.data.email_verified = Bool(TRUE)
  /\ ~result.claims.email_verified

\* C10: on success of verifyAppleIdToken the returned email_verified is true
\* exactly when the payload's email_verified is the boolean true; the string
\* "true", the boolean false and an absent field give false.
C10_AppleEmailVerified ==
  (Succeeded /\ provider = "Apple") =>
     LET ev == DecodePayload(InputParts[2]).email_verified
     IN /\ result.claims.email_verified = (ev.t = "bool" /\ ev.b)
        /\ (ev.t \in {"undef", "str"}) => ~result.claims.email_verified

\* C10 witness: the string "true" was in the payload and false is returned
C10_Witness ==
  /\ Succeeded /\ provider = "Apple"
  /\ DecodePayload(InputParts[2]).email_verified = Str(STrue)
  /\ ~result.claims.email_verified

====
